---- MODULE Spec2Model ----
(***************************************************************************)
(* The persistent container registry of flocker (src/src/state.rs): the    *)
(* in-memory State of each session, the config.json file the sessions      *)
(* share, and the operations of State on them.                             *)
(***************************************************************************)
EXTENDS Integers, Sequences, FiniteSets, TLC

VARIABLES
    containers,   \* containers[s]: State.containers of session s (id -> ContainerInfo)
    order,        \* order[s]: the order in which that HashMap iterates its keys
    file,         \* the file at State::config_path()
    ret,          \* ret[s]: the last call session s made, its arguments and its return
    nops,         \* number of calls made so far
    faults        \* number of file-system failures so far

vars == <<containers, order, file, ret, nops, faults>>

(* ------------------------------ bounds -------------------------------- *)

\* Calls in one run.
MaxOps == 3

\* File-system failures in one run.
MaxFaults == 1

\* Records in a registry that SpecQuery starts from.
MaxRecords == 3

\* Calls in one run of two sessions on the same file.
MaxSharedOps == 4

(* ------------------------------ values -------------------------------- *)

\* Option<T>: None is the empty tuple, Some(x) the one-element tuple.
None == <<>>

Some(x) == <<x>>

Sessions == {"P", "Q"}

Ids == {"c1", "c2", "c3"}

\* Names are strings; a string is the tuple of its characters.
Names == {<<"t">>, <<"t", "1">>, <<"t", "2">>}

DefaultPort == 8090

ImageTag == "latest"

\* RFC 3339 strings "2024-01-01T00:00:0<sec><sfx>".  ContainerInfo::new writes
\* to_rfc3339_opts(Secs, true), which ends in "Z"; the menu's restart writes
\* to_rfc3339(), which ends in ".<fraction>+00:00".
Stamp(sec, sfx) == [sec |-> sec, sfx |-> sfx]

Stamps == {Stamp(1, "Z"), Stamp(1, "."), Stamp(2, "Z")}

\* The byte that follows the seconds in the string.
SfxByte(sfx) == IF sfx = "Z" THEN 90 ELSE 46

\* String::cmp on two stamps: -1 Less, 0 Equal, 1 Greater (bytewise).
StringCmp(a, b) ==
    IF a.sec # b.sec THEN (IF a.sec < b.sec THEN -1 ELSE 1)
    ELSE IF SfxByte(a.sfx) # SfxByte(b.sfx)
         THEN (IF SfxByte(a.sfx) < SfxByte(b.sfx) THEN -1 ELSE 1)
         ELSE 0

\* Option<String>::cmp: None is less than every Some.
OptionCmp(a, b) ==
    IF a = None THEN (IF b = None THEN 0 ELSE -1)
    ELSE IF b = None THEN 1
    ELSE StringCmp(a[1], b[1])

\* The struct ContainerInfo.
ContainerInfo(id, name, port, data_dir, last_start) ==
    [id |-> id, name |-> name, port |-> port, data_dir |-> data_dir,
     config_dir |-> None, image_tag |-> ImageTag, last_start |-> last_start]

\* A port with the data directory mounted for it.
Settings == {<<DefaultPort, None>>, <<9090, Some([relative_path |-> None, absolute_path |-> "/data"])>>}

\* ContainerInfo::new: the record is stamped with the time of the call.
new(id, name, port, data_dir, now) == ContainerInfo(id, name, port, data_dir, Some(now))

\* The records the callers hand to add_container.
Infos ==
    {new(id, name, st[1], st[2], Stamp(1, "Z")) :
        id \in Ids, name \in {<<"t">>, <<"t", "1">>}, st \in Settings}

\* The times the callers hand to update_container_start_time.
UpdateStamps == {Stamp(1, ".")}

\* The (is_running, start_time) pairs the callers hand to update_container_status.
StatusArgs == {<<TRUE, Some(Stamp(2, "Z"))>>, <<TRUE, None>>, <<FALSE, Some(Stamp(2, "Z"))>>}

(* ------------------------------ HashMap ------------------------------- *)

EmptyMap == [k \in {} |-> None]

\* HashMap::insert: the value under the key is replaced.
MapInsert(m, k, v) == [x \in DOMAIN m \cup {k} |-> IF x = k THEN v ELSE m[x]]

\* HashMap::remove.
MapRemove(m, k) == [x \in DOMAIN m \ {k} |-> m[x]]

\* All orders in which a set of keys can be iterated.
Perms(S) ==
    {p \in [1..Cardinality(S) -> S] : \A i, j \in 1..Cardinality(S) : p[i] = p[j] => i = j}

\* The iteration orders after inserting k: an existing key keeps its bucket, a
\* new key lands in a bucket its (randomly seeded) hash picks.
OrdersAfterInsert(ord, k) ==
    IF \E i \in 1..Len(ord) : ord[i] = k THEN {ord}
    ELSE {SubSeq(ord, 1, i) \o <<k>> \o SubSeq(ord, i + 1, Len(ord)) : i \in 0..Len(ord)}

\* The iteration order after removing k: the other keys keep their buckets.
OrderAfterRemove(ord, k) == SelectSeq(ord, LAMBDA x : x # k)

\* HashMap::values(): the values in iteration order.
Values(m, ord) == [i \in 1..Len(ord) |-> m[ord[i]]]

(* ------------------------------ the file ------------------------------ *)

\* serde_json of an Option: null, or the value.
JsonOpt(o) == IF o = None THEN <<"null">> ELSE <<"value", o[1]>>

\* An optional member that is skipped when read.
OptJson_skipped(j) == None

OptJson(j) == IF j[1] = "null" THEN None ELSE Some(j[2])

\* #[derive(Serialize)] of ContainerInfo: one JSON object member per field.
ToJson(c) ==
    [id |-> c.id, name |-> c.name, port |-> c.port, data_dir |-> JsonOpt(c.data_dir),
     config_dir |-> JsonOpt(c.config_dir), image_tag |-> c.image_tag,
     last_start |-> JsonOpt(c.last_start)]

\* #[derive(Deserialize)] of ContainerInfo.
FromJson(j) ==
    [id |-> j.id, name |-> j.name, port |-> j.port, data_dir |-> OptJson(j.data_dir),
     config_dir |-> OptJson(j.config_dir), image_tag |-> j.image_tag,
     last_start |-> OptJson(j.last_start)]

\* A JSON text: the members of "containers" in the order written, and whether
\* the text was written to its end.
Text(entries, complete) == [entries |-> entries, complete |-> complete]

\* serde_json::to_string_pretty(self): the map's members in iteration order.
to_string_pretty(m, ord) ==
    Text([i \in 1..Len(ord) |-> <<ord[i], ToJson(m[ord[i]])>>], TRUE)

\* serde_json::from_str: Err for a text that is cut short; else the map of the
\* members, a later member with the same key replacing an earlier one.
from_str(text) ==
    IF ~text.complete THEN [ok |-> FALSE, map |-> EmptyMap]
    ELSE LET n == Len(text.entries)
             keys == {text.entries[i][1] : i \in 1..n}
             lastOf(k) == CHOOSE i \in 1..n :
                 /\ text.entries[i][1] = k
                 /\ \A j \in (i + 1)..n : text.entries[j][1] # k
         IN [ok |-> TRUE, map |-> [k \in keys |-> FromJson(text.entries[lastOf(k)][2])]]

NoFile == [exists |-> FALSE, text |-> Text(<<>>, FALSE)]

FileOf(text) == [exists |-> TRUE, text |-> text]

\* Whether the file system may fail once more in this run.
MayFail == faults < MaxFaults

\* A save that reports success without writing the file.
save_unwritten(m, ord, f, mayFail) == {[file |-> f, val |-> "Ok"]}

\* A save that keeps the members of the file that the registry does not hold.
save_merging(m, ord, f, mayFail) ==
    LET kept == IF f.exists
                THEN SelectSeq(f.text.entries, LAMBDA e : e[1] \notin DOMAIN m)
                ELSE <<>>
    IN {[file |-> FileOf(Text(kept \o to_string_pretty(m, ord).entries, TRUE)),
         val |-> "Ok"]}

\* State::save: every way it can end, as the file it leaves and the value it
\* returns.  create_dir_all can fail only while the directory is missing;
\* fs::write fails either before it opens the file (the file is as it was) or
\* after it truncated it (a prefix of the text is on disk).
save(m, ord, f, mayFail) ==
    LET content == to_string_pretty(m, ord) IN
    {[file |-> FileOf(content), val |-> "Ok"]}
    \cup {[file |-> f, val |-> "ErrCreateDir"] : x \in {y \in {1} : mayFail /\ ~f.exists}}
    \cup {[file |-> f, val |-> "ErrWrite"] : x \in {y \in {1} : mayFail}}
    \cup {[file |-> FileOf(Text(SubSeq(content.entries, 1, k), FALSE)), val |-> "ErrWrite"] :
             k \in {j \in 0..Len(content.entries) : mayFail}}

(* ------------------------------ queries ------------------------------- *)

\* The comparator with its operands the other way round (ascending).
by_last_start_asc(a, b) == OptionCmp(a.last_start, b.last_start)

\* The comparator of get_containers: |a, b| b.last_start.cmp(&a.last_start).
by_last_start(a, b) == OptionCmp(b.last_start, a.last_start)

\* One step of the stable sort: x, the element that came last, is placed
\* before the first element the comparator orders after it.
InsertStable(sorted, x) ==
    LET later == {i \in 1..Len(sorted) : by_last_start(sorted[i], x) = 1}
        at == IF later = {} THEN Len(sorted) + 1
              ELSE CHOOSE i \in later : \A j \in later : i <= j
    IN SubSeq(sorted, 1, at - 1) \o <<x>> \o SubSeq(sorted, at, Len(sorted))

RECURSIVE sort_by(_)
\* slice::sort_by with by_last_start (a stable sort).
sort_by(v) ==
    IF v = <<>> THEN <<>>
    ELSE InsertStable(sort_by(SubSeq(v, 1, Len(v) - 1)), v[Len(v)])

\* State::get_containers on a map with the given iteration order.
get_containers(m, ord) == sort_by(Values(m, ord))

\* The first value iterated in place of the greatest.
first_value(v) == v[1]

RECURSIVE max_by_key(_)
\* Iterator::max_by_key(|c| c.last_start.as_ref()) on a non-empty sequence: of
\* several maximal elements the last one is returned.
max_by_key(v) ==
    IF Len(v) = 1 THEN v[1]
    ELSE LET best == max_by_key(SubSeq(v, 1, Len(v) - 1))
             x == v[Len(v)]
         IN IF OptionCmp(best.last_start, x.last_start) = 1 THEN best ELSE x

\* State::get_default_settings on a map with the given iteration order.
get_default_settings(m, ord) ==
    IF ord = <<>> THEN <<DefaultPort, None>>
    ELSE LET c == max_by_key(Values(m, ord)) IN <<c.port, c.data_dir>>

\* State::get_container.
get_container(m, id) == IF id \in DOMAIN m THEN Some(m[id]) ELSE None

\* Equality with the pattern in place of the substring search.
name_equals(haystack, needle) == haystack = needle

\* str::contains(&str): the pattern is a run of consecutive characters of the
\* string; characters are compared as they are.
contains(haystack, needle) ==
    \E i \in 0..(Len(haystack) - Len(needle)) :
        SubSeq(haystack, i + 1, i + Len(needle)) = needle

\* State::find_containers_by_name: values().filter(..).collect().
find_containers_by_name(m, ord, name) ==
    SelectSeq(Values(m, ord), LAMBDA c : contains(c.name, name))

(* ------------------------------ the calls ----------------------------- *)

\* What a session remembers of its last call: the operation, its arguments, the
\* Result it returned (val) and the value inside it (out), the registry and the
\* file as they were when the call was made, and how many calls came before it.
Call(s, op, arg, val, out) ==
    [op |-> op, arg |-> arg, val |-> val, out |-> out,
     pre |-> containers[s], preFile |-> file, at |-> nops]

NoCall == [op |-> "none", arg |-> <<>>, val |-> "Ok", out |-> <<>>,
           pre |-> EmptyMap, preFile |-> NoFile, at |-> 0]

Returns(s, op, arg, val, out) == ret' = [ret EXCEPT ![s] = Call(s, op, arg, val, out)]

\* The call met a file-system failure iff failed.
Faulted(failed) == faults' = IF failed THEN faults + 1 ELSE faults

\* The name check without its condition: no name is ever found in use.
NameInUse_off(m, info) == FALSE

\* The name check with the ids compared for equality.
NameInUse_same_id(m, info) ==
    \E k \in DOMAIN m : m[k].name = info.name /\ m[k].id = info.id

\* The name check of add_container: a record of another id holds the name.
NameInUse(m, info) == \E k \in DOMAIN m : m[k].name = info.name /\ m[k].id # info.id

\* State::add_container(info).
add_container(s, info) ==
    IF NameInUse(containers[s], info)
    THEN /\ Returns(s, "add_container", <<info>>, "ErrNameInUse", <<>>)
         /\ Faulted(FALSE)
         /\ UNCHANGED <<containers, order, file>>
    ELSE \E first \in save(containers[s], order[s], file, MayFail) :
           IF first.val # "Ok"
           THEN /\ file' = first.file
                /\ Returns(s, "add_container", <<info>>, first.val, <<>>)
                /\ Faulted(TRUE)
                /\ UNCHANGED <<containers, order>>
           ELSE \E ord \in OrdersAfterInsert(order[s], info.id) :
                \E second \in save(MapInsert(containers[s], info.id, info), ord,
                                   first.file, MayFail) :
                  /\ containers' = [containers EXCEPT
                                       ![s] = MapInsert(containers[s], info.id, info)]
                  /\ order' = [order EXCEPT ![s] = ord]
                  /\ file' = second.file
                  /\ Returns(s, "add_container", <<info>>, second.val, <<>>)
                  /\ Faulted(second.val # "Ok")

\* remove_container without its contains_key check.
remove_container_unchecked(s, id) ==
    \E out \in save(MapRemove(containers[s], id), OrderAfterRemove(order[s], id),
                    file, MayFail) :
      /\ containers' = [containers EXCEPT ![s] = MapRemove(containers[s], id)]
      /\ order' = [order EXCEPT ![s] = OrderAfterRemove(order[s], id)]
      /\ file' = out.file
      /\ Returns(s, "remove_container", <<id>>, out.val, <<>>)
      /\ Faulted(out.val # "Ok")

\* remove_container with the map cleared in place of the one removal.
remove_container_clears(s, id) ==
    IF id \notin DOMAIN containers[s]
    THEN /\ Returns(s, "remove_container", <<id>>, "ErrNotFound", <<>>)
         /\ Faulted(FALSE)
         /\ UNCHANGED <<containers, order, file>>
    ELSE \E out \in save(EmptyMap, <<>>, file, MayFail) :
           /\ containers' = [containers EXCEPT ![s] = EmptyMap]
           /\ order' = [order EXCEPT ![s] = <<>>]
           /\ file' = out.file
           /\ Returns(s, "remove_container", <<id>>, out.val, <<>>)
           /\ Faulted(out.val # "Ok")

\* remove_container with the file removed along with the last record.
remove_container_unlinks(s, id) ==
    IF id \notin DOMAIN containers[s]
    THEN /\ Returns(s, "remove_container", <<id>>, "ErrNotFound", <<>>)
         /\ Faulted(FALSE)
         /\ UNCHANGED <<containers, order, file>>
    ELSE \E out \in save(MapRemove(containers[s], id), OrderAfterRemove(order[s], id),
                         file, MayFail) :
           /\ containers' = [containers EXCEPT ![s] = MapRemove(containers[s], id)]
           /\ order' = [order EXCEPT ![s] = OrderAfterRemove(order[s], id)]
           /\ file' = IF DOMAIN containers[s] = {id} THEN NoFile ELSE out.file
           /\ Returns(s, "remove_container", <<id>>, out.val, <<>>)
           /\ Faulted(out.val # "Ok")

\* State::remove_container(container_id).
remove_container(s, id) ==
    IF id \notin DOMAIN containers[s]
    THEN /\ Returns(s, "remove_container", <<id>>, "ErrNotFound", <<>>)
         /\ Faulted(FALSE)
         /\ UNCHANGED <<containers, order, file>>
    ELSE \E out \in save(MapRemove(containers[s], id), OrderAfterRemove(order[s], id),
                         file, MayFail) :
           /\ containers' = [containers EXCEPT ![s] = MapRemove(containers[s], id)]
           /\ order' = [order EXCEPT ![s] = OrderAfterRemove(order[s], id)]
           /\ file' = out.file
           /\ Returns(s, "remove_container", <<id>>, out.val, <<>>)
           /\ Faulted(out.val # "Ok")

\* The start time set on every record once the id is known.
SetLastStart_all(m, id, ls) ==
    IF id \in DOMAIN m THEN [k \in DOMAIN m |-> [m[k] EXCEPT !.last_start = ls]] ELSE m

\* The map after `if let Some(container) = get_mut(id) { container.last_start = ls }`.
SetLastStart(m, id, ls) ==
    IF id \in DOMAIN m THEN [m EXCEPT ![id].last_start = ls] ELSE m

\* State::update_container_start_time(container_id, start_time).
update_container_start_time(s, id, start_time) ==
    LET m == SetLastStart(containers[s], id, Some(start_time)) IN
    \E out \in save(m, order[s], file, MayFail) :
      /\ containers' = [containers EXCEPT ![s] = m]
      /\ file' = out.file
      /\ Returns(s, "update_container_start_time", <<id, start_time>>, out.val, <<>>)
      /\ Faulted(out.val # "Ok")
      /\ UNCHANGED order

\* State::update_container_status(container_id, is_running, start_time).
update_container_status(s, id, is_running, start_time) ==
    LET m == IF is_running THEN SetLastStart(containers[s], id, start_time)
             ELSE containers[s]
    IN \E out \in save(m, order[s], file, MayFail) :
         /\ containers' = [containers EXCEPT ![s] = m]
         /\ file' = out.file
         /\ Returns(s, "update_container_status", <<id, is_running, start_time>>,
                    out.val, <<>>)
         /\ Faulted(out.val # "Ok")
         /\ UNCHANGED order

\* State::config_path(): the one path every session reads and writes.
config_path == "config.json"

\* A load that falls back to the default State when the file does not parse.
load_or_default(s) ==
    IF ~file.exists \/ ~from_str(file.text).ok
    THEN /\ containers' = [containers EXCEPT ![s] = EmptyMap]
         /\ order' = [order EXCEPT ![s] = <<>>]
         /\ Returns(s, "load", <<>>, "Ok", <<>>)
         /\ Faulted(FALSE)
         /\ UNCHANGED file
    ELSE \E ord \in Perms(DOMAIN from_str(file.text).map) :
         /\ containers' = [containers EXCEPT ![s] = from_str(file.text).map]
         /\ order' = [order EXCEPT ![s] = ord]
         /\ Returns(s, "load", <<>>, "Ok", <<>>)
         /\ Faulted(FALSE)
         /\ UNCHANGED file

\* A load that writes the default State where it finds no file.
load_creates_file(s) ==
    IF ~file.exists
    THEN /\ containers' = [containers EXCEPT ![s] = EmptyMap]
         /\ order' = [order EXCEPT ![s] = <<>>]
         /\ file' = FileOf(to_string_pretty(EmptyMap, <<>>))
         /\ Returns(s, "load", <<>>, "Ok", <<>>)
         /\ Faulted(FALSE)
    ELSE load_or_default(s)

\* State::load(), the session keeping the State it returns: the default State
\* when there is no file, the parsed one otherwise (in a new HashMap, whose
\* iteration order is its own); a file that cannot be read or does not parse
\* is the error ConfigFile, which carries the path.
load(s) ==
    IF ~file.exists
    THEN /\ containers' = [containers EXCEPT ![s] = EmptyMap]
         /\ order' = [order EXCEPT ![s] = <<>>]
         /\ Returns(s, "load", <<>>, "Ok", <<>>)
         /\ Faulted(FALSE)
         /\ UNCHANGED file
    ELSE \/ /\ MayFail
            /\ Returns(s, "load", <<>>, "ErrConfigFile", <<config_path>>)
            /\ Faulted(TRUE)
            /\ UNCHANGED <<containers, order, file>>
         \/ /\ ~from_str(file.text).ok
            /\ Returns(s, "load", <<>>, "ErrConfigFile", <<config_path>>)
            /\ Faulted(FALSE)
            /\ UNCHANGED <<containers, order, file>>
         \/ /\ from_str(file.text).ok
            /\ \E ord \in Perms(DOMAIN from_str(file.text).map) :
                 /\ containers' = [containers EXCEPT ![s] = from_str(file.text).map]
                 /\ order' = [order EXCEPT ![s] = ord]
                 /\ Returns(s, "load", <<>>, "Ok", <<>>)
                 /\ Faulted(FALSE)
                 /\ UNCHANGED file

\* State::clear(): the file is removed if it exists.
clear(s) ==
    \/ /\ file' = NoFile
       /\ Returns(s, "clear", <<>>, "Ok", <<>>)
       /\ Faulted(FALSE)
       /\ UNCHANGED <<containers, order>>
    \/ /\ file.exists /\ MayFail
       /\ Returns(s, "clear", <<>>, "ErrConfigFile", <<config_path>>)
       /\ Faulted(TRUE)
       /\ UNCHANGED <<containers, order, file>>

\* A call of a query: nothing but the caller's record of it changes.
Query(s, op, arg, out) ==
    /\ Returns(s, op, arg, "Ok", out)
    /\ Faulted(FALSE)
    /\ UNCHANGED <<containers, order, file>>

CallGetContainers(s) ==
    Query(s, "get_containers", <<>>, get_containers(containers[s], order[s]))

CallGetDefaultSettings(s) ==
    Query(s, "get_default_settings", <<>>, get_default_settings(containers[s], order[s]))

CallGetContainer(s, id) ==
    Query(s, "get_container", <<id>>, get_container(containers[s], id))

CallFindContainersByName(s, name) ==
    Query(s, "find_containers_by_name", <<name>>,
          find_containers_by_name(containers[s], order[s], name))

\* The patterns the callers search for.
Patterns ==
    {<<>>, <<"t">>, <<"1">>, <<"t", "1">>, <<"T">>, <<"1", "t">>, <<"t", "1", "2">>}

(* ------------------------- the container menu ------------------------- *)

\* ContainerStatus, as DockerManager::get_container_status(container_id)
\* builds it: Running and Stopped carry the id that was asked about.
GatewayKinds == {"Running", "Stopped", "NotFound"}

get_container_status(container_id, kind) ==
    [kind |-> kind, id |-> IF kind = "NotFound" THEN "" ELSE container_id]

\* What ui.get_selection can return for a menu of n containers: an error, or
\* the index of an option, option 0 being "Create new container".
Selections(n) == {<<"Err", 0>>} \cup {<<"Ok", i>> : i \in 0..n}

\* The menu with the selection used as the index into the containers.
select_container_unshifted(s, selection, kind) ==
    LET list == get_containers(containers[s], order[s]) IN
    IF list = <<>> THEN Query(s, "select_container", <<selection, kind>>, None)
    ELSE IF selection[1] = "Err"
    THEN /\ Returns(s, "select_container", <<selection, kind>>, "ErrUserInput", <<>>)
         /\ Faulted(FALSE)
         /\ UNCHANGED <<containers, order, file>>
    ELSE IF selection[2] = 0 \/ kind = "NotFound"
    THEN Query(s, "select_container", <<selection, kind>>, None)
    ELSE Query(s, "select_container", <<selection, kind>>,
               Some(get_container_status(
                        list[IF selection[2] < Len(list) THEN selection[2] + 1 ELSE 1].id,
                        kind).id))

\* ContainerUI::select_container: selection is what the user interface
\* returns, kind what the gateway reports of the selected container.
select_container(s, selection, kind) ==
    LET list == get_containers(containers[s], order[s]) IN
    IF list = <<>> THEN Query(s, "select_container", <<selection, kind>>, None)
    ELSE IF selection[1] = "Err"
    THEN /\ Returns(s, "select_container", <<selection, kind>>, "ErrUserInput", <<>>)
         /\ Faulted(FALSE)
         /\ UNCHANGED <<containers, order, file>>
    ELSE IF selection[2] = 0
    THEN Query(s, "select_container", <<selection, kind>>, None)
    ELSE LET selected_container == list[selection[2]]
             status == get_container_status(selected_container.id, kind)
         IN IF status.kind = "NotFound"
            THEN Query(s, "select_container", <<selection, kind>>, None)
            ELSE Query(s, "select_container", <<selection, kind>>, Some(status.id))

(* --------------------------- specifications --------------------------- *)

Init ==
    /\ containers = [s \in Sessions |-> EmptyMap]
    /\ order = [s \in Sessions |-> <<>>]
    /\ file = NoFile
    /\ ret = [s \in Sessions |-> NoCall]
    /\ nops = 0
    /\ faults = 0

\* One of at most MaxOps calls of a run.
Step(call) == nops < MaxOps /\ nops' = nops + 1 /\ call

\* One session, P, working on the registry.
Next ==
    \/ \E info \in Infos : Step(add_container("P", info))
    \/ \E id \in Ids : Step(remove_container("P", id))
    \/ \E id \in Ids, ts \in UpdateStamps : Step(update_container_start_time("P", id, ts))
    \/ \E id \in Ids, st \in StatusArgs :
          Step(update_container_status("P", id, st[1], st[2]))
    \/ Step(load("P"))
    \/ Step(clear("P"))
    \/ Step(CallGetContainers("P"))
    \/ Step(CallGetDefaultSettings("P"))
    \/ \E id \in Ids : Step(CallGetContainer("P", id))

Spec == Init /\ [][Next]_vars

\* The records a registry can hold: a record is stored under its id, and here
\* each id has its own name and settings.
NameOf(id) == IF id = "c1" THEN <<"t">> ELSE IF id = "c2" THEN <<"t", "1">> ELSE <<"t", "2">>

\* c2 was created on the second port with the data directory mounted.
SettingsOf(id) ==
    CHOOSE st \in Settings : (st[1] = DefaultPort) <=> (id # "c2")

Held(id) ==
    {ContainerInfo(id, NameOf(id), SettingsOf(id)[1], SettingsOf(id)[2], ls) :
        ls \in {None} \cup {Some(t) : t \in Stamps}}

\* The registries of at most MaxRecords records.
Registries ==
    UNION {{m \in [D -> UNION {Held(id) : id \in D}] : \A k \in D : m[k].id = k} :
              D \in {E \in SUBSET Ids : Cardinality(E) <= MaxRecords}}

\* Session P holds a registry it has saved; session Q has just started.
InitQuery ==
    \E m \in Registries : \E ord \in Perms(DOMAIN m) :
        /\ containers = [s \in Sessions |-> IF s = "P" THEN m ELSE EmptyMap]
        /\ order = [s \in Sessions |-> IF s = "P" THEN ord ELSE <<>>]
        /\ file = FileOf(to_string_pretty(m, ord))
        /\ ret = [s \in Sessions |-> NoCall]
        /\ nops = 0
        /\ faults = 0

\* Q loads the file; both sessions query their registries.
NextQuery ==
    \/ load("Q") /\ UNCHANGED nops
    \/ \E s \in Sessions : CallGetContainers(s) /\ UNCHANGED nops
    \/ \E s \in Sessions : CallGetDefaultSettings(s) /\ UNCHANGED nops

SpecQuery == InitQuery /\ [][NextQuery]_vars

\* The record each of the two sessions creates and adds: the ids, the names
\* and the settings of the two are distinct.
SharedInfo(s) ==
    LET id == IF s = "P" THEN "c1" ELSE "c2" IN
    new(id, NameOf(id), SettingsOf(id)[1], SettingsOf(id)[2], Stamp(1, "Z"))

\* Both sessions are about to start; an earlier run left no file, or the
\* file of a registry that holds c3.
InitShared ==
    \E m \in {r \in Registries : DOMAIN r \subseteq {"c3"}} :
        /\ containers = [s \in Sessions |-> EmptyMap]
        /\ order = [s \in Sessions |-> <<>>]
        /\ file \in {NoFile, FileOf(to_string_pretty(m, IF DOMAIN m = {} THEN <<>> ELSE <<"c3">>))}
        /\ ret = [s \in Sessions |-> NoCall]
        /\ nops = 0
        /\ faults = 0

\* One of at most MaxSharedOps calls of the two sessions.
StepShared(call) == nops < MaxSharedOps /\ nops' = nops + 1 /\ call

\* Two sessions, each loading the file and adding records to its own State.
NextShared ==
    \/ \E s \in Sessions : StepShared(load(s))
    \/ \E s \in Sessions : StepShared(add_container(s, SharedInfo(s)))

SpecShared == InitShared /\ [][NextShared]_vars

\* Session P searches its registry by name and shows the container menu.
NextLookup ==
    \/ \E name \in Patterns : CallFindContainersByName("P", name) /\ UNCHANGED nops
    \/ \E selection \in Selections(Cardinality(DOMAIN containers["P"])),
          kind \in GatewayKinds :
          select_container("P", selection, kind) /\ UNCHANGED nops

SpecLookup == InitQuery /\ [][NextLookup]_vars

(* --------------------- validating a configuration --------------------- *)

\* What a path of a configuration names on disk: nothing, a file, a
\* directory, or a directory that canonicalize() fails on.
PathKinds == {"missing", "file", "dir", "unresolvable"}

\* The config file named is in the mount directory, or it is not.
FileKinds == {"present", "absent"}

\* The host ports of the configurations validated.
ConfigPorts == {80, 1023, 1024, DefaultPort, 65535}

\* FlureeConfig::new.
FlureeConfig(host_port, data_mount, config_mount, config_file) ==
    [host_port |-> host_port, data_mount |-> data_mount,
     config_mount |-> config_mount, config_file |-> config_file]

FlureeConfigs ==
    {FlureeConfig(p, d, m, f) :
        p \in ConfigPorts,
        d \in {None} \cup {Some(k) : k \in PathKinds},
        m \in {None} \cup {Some(k) : k \in PathKinds},
        f \in {None} \cup {Some(k) : k \in FileKinds}}

\* The closure validate_dir of FlureeConfig::validate.
validate_dir(path) ==
    IF path = "missing" THEN "ErrConfig"
    ELSE IF path = "file" THEN "ErrConfig"
    ELSE IF path = "unresolvable" THEN "ErrConfigFile"
    ELSE "Ok"

\* validate without its last branch: a config file is taken without a mount.
FlureeConfig_validate_lenient(config) ==
    IF config.host_port < 1024 THEN "ErrConfig"
    ELSE IF config.data_mount # None /\ validate_dir(config.data_mount[1]) # "Ok"
    THEN validate_dir(config.data_mount[1])
    ELSE IF config.config_mount # None
    THEN IF validate_dir(config.config_mount[1]) # "Ok"
         THEN validate_dir(config.config_mount[1])
         ELSE IF config.config_file = None THEN "ErrConfig"
         ELSE IF config.config_file[1] # "present" THEN "ErrConfig"
         ELSE "Ok"
    ELSE "Ok"

\* FlureeConfig::validate.
FlureeConfig_validate(config) ==
    IF config.host_port < 1024 THEN "ErrConfig"
    ELSE IF config.data_mount # None /\ validate_dir(config.data_mount[1]) # "Ok"
    THEN validate_dir(config.data_mount[1])
    ELSE IF config.config_mount # None
    THEN IF validate_dir(config.config_mount[1]) # "Ok"
         THEN validate_dir(config.config_mount[1])
         ELSE IF config.config_file = None THEN "ErrConfig"
         ELSE IF config.config_file[1] # "present" THEN "ErrConfig"
         ELSE "Ok"
    ELSE IF config.config_file # None THEN "ErrConfig"
    ELSE "Ok"

\* A call of validate on a configuration.
CallValidate(s, config) ==
    /\ Returns(s, "validate", <<config>>, FlureeConfig_validate(config), <<>>)
    /\ Faulted(FALSE)
    /\ UNCHANGED <<containers, order, file>>

\* Configurations are built and validated.
NextValidate == \E config \in FlureeConfigs : CallValidate("P", config) /\ UNCHANGED nops

SpecValidate == Init /\ [][NextValidate]_vars

(* ----------------------- creating a container ------------------------ *)

\* What the user types at the port prompt, as the number the digits denote.
PortInputs == {80, 1023, 1024, 9090, 65535, 65536}

\* str::parse::<u16>.
parse_u16(input) == [ok |-> input \in 0..65535, port |-> input]

\* ContainerUI::get_port_config: the input parsed, and refused below 1024.
get_port_config(input) ==
    IF ~parse_u16(input).ok THEN [ok |-> FALSE, port |-> 0]
    ELSE IF parse_u16(input).port < 1024 THEN [ok |-> FALSE, port |-> 0]
    ELSE [ok |-> TRUE, port |-> parse_u16(input).port]

\* FlureeConfig::validate of a configuration without mounts.
validate(host_port) == FlureeConfig_validate(FlureeConfig(host_port, None, None, None)) = "Ok"

\* ContainerUI::add_container: add_container and save on a clone of the
\* State, which is dropped; what is left is the file and the value returned.
ContainerUI_add_container(m, ord, f, info, mayFail) ==
    IF NameInUse(m, info) THEN {[file |-> f, val |-> "ErrNameInUse"]}
    ELSE LET m2 == MapInsert(m, info.id, info) IN
         UNION {IF first.val # "Ok" THEN {first}
                ELSE UNION {UNION {IF second.val # "Ok" THEN {second}
                                   ELSE save(m2, ord2, second.file, mayFail) :
                                       second \in save(m2, ord2, first.file, mayFail)} :
                               ord2 \in OrdersAfterInsert(ord, info.id)} :
                   first \in save(m, ord, f, mayFail)}

\* The creation of a container with the port taken as it was typed.
main_create_container_unchecked(s, id, input) ==
    \E out \in ContainerUI_add_container(containers[s], order[s], file,
                     new(id, NameOf(id), input, None, Stamp(1, "Z")), MayFail) :
      /\ file' = out.file
      /\ Returns(s, "main_create_container", <<input, id>>, out.val, <<>>)
      /\ Faulted(out.val \in {"ErrCreateDir", "ErrWrite"})
      /\ UNCHANGED <<containers, order>>

\* main, from the port prompt to the record: get_port_config, validate, the
\* container created by the gateway under id, ContainerInfo::new and
\* ContainerUI::add_container.
main_create_container(s, id, input) ==
    IF ~get_port_config(input).ok
    THEN /\ Returns(s, "main_create_container", <<input, id>>, "ErrUserInput", <<>>)
         /\ Faulted(FALSE)
         /\ UNCHANGED <<containers, order, file>>
    ELSE IF ~validate(get_port_config(input).port)
    THEN /\ Returns(s, "main_create_container", <<input, id>>, "ErrConfig", <<>>)
         /\ Faulted(FALSE)
         /\ UNCHANGED <<containers, order, file>>
    ELSE \E out \in ContainerUI_add_container(containers[s], order[s], file,
                         new(id, NameOf(id), get_port_config(input).port, None,
                             Stamp(1, "Z")), MayFail) :
           /\ file' = out.file
           /\ Returns(s, "main_create_container", <<input, id>>, out.val, <<>>)
           /\ Faulted(out.val \in {"ErrCreateDir", "ErrWrite"})
           /\ UNCHANGED <<containers, order>>

(* ---------------------- loading at start-up -------------------------- *)

\* What State::load() returns for the file f: the Result (val) and, for Ok,
\* the State's map.
State_load(f, mayFail) ==
    IF ~f.exists THEN {[val |-> "Ok", map |-> EmptyMap]}
    ELSE {[val |-> "ErrConfigFile", map |-> EmptyMap] : x \in {y \in {1} : mayFail}}
         \cup {IF from_str(f.text).ok
                THEN [val |-> "Ok", map |-> from_str(f.text).map]
                ELSE [val |-> "ErrConfigFile", map |-> EmptyMap]}

\* The session starts with the State that loaded, or with State::default()
\* (warned tells whether the error was shown to the user).
StartWith(s, op, loaded, warned) ==
    \E ord \in Perms(DOMAIN loaded.map) :
      /\ containers' = [containers EXCEPT ![s] = loaded.map]
      /\ order' = [order EXCEPT ![s] = ord]
      /\ Returns(s, op, <<>>, "Ok", <<loaded.val, warned>>)
      /\ Faulted(loaded.val # "Ok" /\ from_str(file.text).ok)
      /\ UNCHANGED file

\* impl Default for CliState: State::load().unwrap_or_default().
CliState_default(s) ==
    \E loaded \in State_load(file, MayFail) : StartWith(s, "CliState_default", loaded, FALSE)

\* CliState::load_state: the error of State::load() is printed, and the
\* session goes on with State::default().
load_state(s) ==
    \E loaded \in State_load(file, MayFail) :
        StartWith(s, "load_state", loaded, loaded.val # "Ok")

\* main: let state = State::load().unwrap_or_default().
main_load(s) ==
    \E loaded \in State_load(file, MayFail) : StartWith(s, "main", loaded, FALSE)

\* P adds records (a write may fail and leave the file cut short); Q starts
\* on the file by each of the three paths.
NextStart ==
    \/ \E t \in Sessions : Step(add_container("P", SharedInfo(t)))
    \/ Step(CliState_default("Q"))
    \/ Step(load_state("Q"))
    \/ Step(main_load("Q"))

SpecStart == Init /\ [][NextStart]_vars

\* Runs of main: the registry is loaded, containers are created.
NextCreate ==
    \/ Step(load("P"))
    \/ \E id \in {"c1", "c2"}, input \in PortInputs :
          Step(main_create_container("P", id, input))

SpecCreate == Init /\ [][NextCreate]_vars

(* ----------------------- a save, step by step ------------------------- *)

\* update_container_start_time up to the first step of fs::write in save:
\* the record is stamped in memory, the text is serialized, and File::create
\* opens config.json and truncates it.
save_File_create(s, id, start_time) ==
    /\ ret[s].val # "Writing"
    /\ containers' = [containers EXCEPT ![s] = SetLastStart(containers[s], id, Some(start_time))]
    /\ file' = FileOf(Text(<<>>, FALSE))
    /\ Returns(s, "update_container_start_time", <<id, start_time>>, "Writing", <<>>)
    /\ Faulted(FALSE)
    /\ UNCHANGED order

\* The second step of fs::write: write_all puts the text into the file, and
\* save returns Ok.
save_write_all(s) ==
    /\ ret[s].val = "Writing"
    /\ file' = FileOf(to_string_pretty(containers[s], order[s]))
    /\ ret' = [ret EXCEPT ![s].val = "Ok"]
    /\ Faulted(FALSE)
    /\ UNCHANGED <<containers, order>>

\* The process is killed between the two steps: its State is gone, the file
\* stays as File::create left it.
crash(s) ==
    /\ ret[s].val = "Writing"
    /\ containers' = [containers EXCEPT ![s] = EmptyMap]
    /\ order' = [order EXCEPT ![s] = <<>>]
    /\ ret' = [ret EXCEPT ![s].val = "Crashed"]
    /\ Faulted(FALSE)
    /\ UNCHANGED file

\* Session P holds a registry of c1 and c2 that it has saved; Q has just
\* started.
InitWrite ==
    \E m \in {r \in Registries : DOMAIN r \subseteq {"c1", "c2"}} :
      \E ord \in Perms(DOMAIN m) :
        /\ containers = [s \in Sessions |-> IF s = "P" THEN m ELSE EmptyMap]
        /\ order = [s \in Sessions |-> IF s = "P" THEN ord ELSE <<>>]
        /\ file = FileOf(to_string_pretty(m, ord))
        /\ ret = [s \in Sessions |-> NoCall]
        /\ nops = 0
        /\ faults = 0

\* P stamps records and saves, one step of fs::write at a time; Q loads the
\* file at any moment.
NextWrite ==
    \/ \E id \in {"c1", "c2"}, ts \in UpdateStamps : Step(save_File_create("P", id, ts))
    \/ save_write_all("P") /\ UNCHANGED nops
    \/ crash("P") /\ UNCHANGED nops
    \/ load("Q") /\ UNCHANGED nops

SpecWrite == InitWrite /\ [][NextWrite]_vars

(* -------------------------- ledger management ------------------------- *)

\* At most MaxRounds rounds of selections in one visit of the ledger menu.
MaxRounds == 2

\* A call made on the gateway (DockerOperations), with the container id or
\* the ledger path it was made for.
Gw(call, arg) == [call |-> call, arg |-> arg]

\* What list_ledgers returns, sorted by last_commit_time: ledger paths.
LedgerLists == {<<>>, <<"l1">>, <<"l1", "l2">>}

\* What the user types at the prompt "Type 'delete' to confirm", one line
\* after the other; <<>> is a prompt that ends with an error.
Typed == {<<>>, <<"delete">>, <<"Delete">>, <<"Delete", "delete">>, <<"Delete", "Delete">>}

\* One round of the menu: the item selected in the ledger list, the action
\* selected, and the lines typed if the action, Delete, asks for them.
Rounds(items, actions) ==
    {[ledger |-> l, action |-> a, typed |-> <<>>] :
        l \in 0..(items - 1), a \in (0..(actions - 1)) \ {1}}
    \cup {[ledger |-> l, action |-> 1, typed |-> t] : l \in 0..(items - 1), t \in Typed}

RECURSIVE ScriptsOf(_, _)
\* The sequences of n of the rounds.
ScriptsOf(rounds, n) ==
    IF n = 0 THEN {<<>>}
    ELSE {<<r>> \o sc : r \in rounds, sc \in ScriptsOf(rounds, n - 1)}

\* The sequences of at most n rounds.
Scripts(items, actions, n) ==
    UNION {ScriptsOf(Rounds(items, actions), k) : k \in 0..n}

\* The comparison with any capitalisation of the word accepted.
is_delete_any_case(input) == input \in {"delete", "Delete"}

\* input == "delete".
is_delete(input) == input = "delete"

RECURSIVE validate_with(_)
\* dialoguer's Input with the validator of handle_ledger_management: lines
\* are read until one passes; without one the prompt ends with an error.
validate_with(typed) ==
    IF typed = <<>> THEN [ok |-> FALSE, value |-> ""]
    ELSE IF is_delete(Head(typed)) THEN [ok |-> TRUE, value |-> Head(typed)]
    ELSE validate_with(Tail(typed))

\* UserInterface::get_string_input: the first line typed.
get_string_input(typed) ==
    IF typed = <<>> THEN [ok |-> FALSE, value |-> ""]
    ELSE [ok |-> TRUE, value |-> Head(typed)]

\* What a visit of the ledger menu returns: the Result, the gateway calls it
\* made in order, and the rounds of the script it took.
Visit(val, log, rounds) == [val |-> val, log |-> log, rounds |-> rounds]

RECURSIVE handle_ledger_management(_, _, _, _)
\* CliState::handle_ledger_management: the loop, from the iteration that
\* starts with the gateway calls of log made and rounds rounds taken.
handle_ledger_management(ledgers, script, log, rounds) ==
    LET listed == Append(log, Gw("list_ledgers", "")) IN
    IF ledgers = <<>> THEN Visit("Ok", listed, rounds)
    ELSE IF script = <<>> THEN Visit("ErrUserInput", listed, rounds)
    ELSE LET selection == Head(script).ledger
             action_selection == Head(script).action
         IN IF ~(selection < Len(ledgers)) THEN Visit("Ok", listed, rounds + 1)
            ELSE LET selected_ledger == ledgers[selection + 1] IN
                 IF action_selection = 0
                 THEN handle_ledger_management(ledgers, Tail(script),
                          Append(listed, Gw("get_ledger_details", selected_ledger)),
                          rounds + 1)
                 ELSE IF action_selection = 1
                 THEN LET confirmation == validate_with(Head(script).typed) IN
                      IF ~confirmation.ok THEN Visit("ErrUserInput", listed, rounds + 1)
                      ELSE IF is_delete(confirmation.value)
                      THEN Visit("Ok", Append(listed, Gw("delete_ledger", selected_ledger)),
                                 rounds + 1)
                      ELSE handle_ledger_management(ledgers, Tail(script), listed,
                                                    rounds + 1)
                 ELSE Visit("Ok", listed, rounds + 1)

RECURSIVE manage_ledgers(_, _, _, _)
\* LedgerUI::manage_ledgers with handle_ledger_details and
\* handle_ledger_deletion.
manage_ledgers(ledgers, script, log, rounds) ==
    LET listed == Append(log, Gw("list_ledgers", "")) IN
    IF ledgers = <<>> THEN Visit("Ok", listed, rounds)
    ELSE IF script = <<>> THEN Visit("ErrUserInput", listed, rounds)
    ELSE LET selected_ledger == ledgers[Head(script).ledger + 1]
             action_selection == Head(script).action
         IN IF action_selection = 0
            THEN manage_ledgers(ledgers, Tail(script),
                     Append(listed, Gw("get_ledger_details", selected_ledger)), rounds + 1)
            ELSE IF action_selection = 1
            THEN LET confirmation == get_string_input(Head(script).typed) IN
                 IF ~confirmation.ok THEN Visit("ErrUserInput", listed, rounds + 1)
                 ELSE IF is_delete(confirmation.value)
                 THEN Visit("Ok", Append(listed, Gw("delete_ledger", selected_ledger)),
                            rounds + 1)
                 ELSE manage_ledgers(ledgers, Tail(script), listed, rounds + 1)
            ELSE Visit("Ok", listed, rounds + 1)

\* A visit of the ledger menu of CliState: the list has one item more than
\* there are ledgers, and there are four actions.
CallHandleLedgerManagement(s, ledgers, script) ==
    LET visit == handle_ledger_management(ledgers, script, <<>>, 0) IN
    /\ Returns(s, "handle_ledger_management", <<ledgers, script>>, visit.val, visit)
    /\ Faulted(FALSE)
    /\ UNCHANGED <<containers, order, file>>

\* A visit of the ledger menu of LedgerUI: the list has the ledgers only,
\* and there are three actions.
CallManageLedgers(s, ledgers, script) ==
    LET visit == manage_ledgers(ledgers, script, <<>>, 0) IN
    /\ Returns(s, "manage_ledgers", <<ledgers, script>>, visit.val, visit)
    /\ Faulted(FALSE)
    /\ UNCHANGED <<containers, order, file>>

\* The one call of a run.
Once(call) == nops = 0 /\ nops' = 1 /\ call

\* The user visits the ledger menu of a container.
NextLedger ==
    \/ /\ nops = 0
       /\ \E ledgers \in LedgerLists :
          \E script \in Scripts(Len(ledgers) + 1, 4, MaxRounds) :
             Once(CallHandleLedgerManagement("P", ledgers, script))
    \/ /\ nops = 0
       /\ \E ledgers \in LedgerLists :
          \E script \in Scripts(Len(ledgers), 3, MaxRounds) :
             Once(CallManageLedgers("P", ledgers, script))

SpecLedger == Init /\ [][NextLedger]_vars

(* ------------------------ the menus of CliState ----------------------- *)

\* At most MaxMenuOps visits of the container menu in a run.
MaxMenuOps == 1

\* What an operation of the menu leaves: the State's map with its iteration
\* order, the file, the Result, and the gateway calls it made in order.
Outcome(m, ord, f, val, log) ==
    [map |-> m, order |-> ord, file |-> f, val |-> val, log |-> log]

\* State::remove_container on the State (m, ord) and the file f, after the
\* gateway calls of log.
State_remove_container(m, ord, f, id, log, mayFail) ==
    IF id \notin DOMAIN m THEN {Outcome(m, ord, f, "ErrNotFound", log)}
    ELSE {Outcome(MapRemove(m, id), OrderAfterRemove(ord, id), out.file, out.val, log) :
             out \in save(MapRemove(m, id), OrderAfterRemove(ord, id), f, mayFail)}

\* State::update_container_start_time on the State (m, ord) and the file f.
State_update_container_start_time(m, ord, f, id, start_time, log, mayFail) ==
    {Outcome(SetLastStart(m, id, Some(start_time)), ord, out.file, out.val, log) :
        out \in save(SetLastStart(m, id, Some(start_time)), ord, f, mayFail)}

\* What the gateway answers to a call: Ok, or FlockerError::Docker.
GatewayResults == {"Ok", "ErrDocker"}

\* The start of a stopped container with the registry updated before the
\* gateway is asked.
start_stopped_eager(m, ord, f, id, gateway, now, mayFail) ==
    {IF gateway # "Ok" THEN [o EXCEPT !.val = "ErrDocker"] ELSE o :
        o \in State_update_container_start_time(m, ord, f, id, now,
                  <<Gw("start_container", id)>>, mayFail)}

\* "Start this container" of CliState::handle_running_container:
\* docker.start_container(&id).await?, then update_container_start_time.
start_stopped(m, ord, f, id, gateway, now, mayFail) ==
    IF gateway # "Ok"
    THEN {Outcome(m, ord, f, "ErrDocker", <<Gw("start_container", id)>>)}
    ELSE State_update_container_start_time(m, ord, f, id, now,
             <<Gw("start_container", id)>>, mayFail)

\* The removal with the registry entry removed before the gateway is asked.
destroy_eager(m, ord, f, id, gateway, mayFail) ==
    {IF gateway # "Ok" THEN [o EXCEPT !.val = "ErrDocker"] ELSE o :
        o \in State_remove_container(m, ord, f, id, <<Gw("remove_container", id)>>,
                                     mayFail)}

\* "Stop and Destroy" and "Destroy this container" of
\* CliState::handle_running_container: docker.remove_container(&id).await?,
\* then self.state.remove_container(&id)?.
destroy(m, ord, f, id, gateway, mayFail) ==
    IF gateway # "Ok"
    THEN {Outcome(m, ord, f, "ErrDocker", <<Gw("remove_container", id)>>)}
    ELSE State_remove_container(m, ord, f, id, <<Gw("remove_container", id)>>, mayFail)

\* The selections of the action menu: -1 is a prompt that ends with an error.
\* A running container has six actions, a stopped one two.
Actions(kind) ==
    IF kind = "Running" THEN -1..5 ELSE IF kind = "Stopped" THEN -1..1 ELSE {0}

\* The visits of the ledger menu that "List Ledgers" can lead to.
Visits ==
    {handle_ledger_management(ledgers, script, <<>>, 0) :
        ledgers \in {<<>>, <<"l1">>}, script \in Scripts(2, 4, 1)}

\* CliState::handle_running_container for the status the gateway reported,
\* the action selected, the gateway's answer to the call the action makes,
\* and the visit of the ledger menu the action leads to.
handle_running_container(m, ord, f, status, selection, gateway, visit, now, mayFail) ==
    LET id == status.id IN
    IF status.kind = "NotFound" THEN {Outcome(m, ord, f, "Ok", <<>>)}
    ELSE IF selection = -1 THEN {Outcome(m, ord, f, "ErrUserInput", <<>>)}
    ELSE IF status.kind = "Running"
    THEN CASE selection = 0 ->
                 {Outcome(m, ord, f, gateway, <<Gw("get_container_stats", id)>>)}
           [] selection = 1 ->
                 {Outcome(m, ord, f, gateway, <<Gw("get_container_logs", id)>>)}
           [] selection = 2 -> {Outcome(m, ord, f, visit.val, visit.log)}
           [] selection = 3 ->
                 {Outcome(m, ord, f, gateway, <<Gw("stop_container", id)>>)}
           [] selection = 4 -> destroy(m, ord, f, id, gateway, mayFail)
           [] OTHER -> {Outcome(m, ord, f, "Ok", <<>>)}
    ELSE IF selection = 0 THEN start_stopped(m, ord, f, id, gateway, now, mayFail)
    ELSE destroy(m, ord, f, id, gateway, mayFail)

\* The session s takes the outcome o of the operation op.
Takes(s, op, arg, o, value) ==
    /\ containers' = [containers EXCEPT ![s] = o.map]
    /\ order' = [order EXCEPT ![s] = o.order]
    /\ file' = o.file
    /\ Returns(s, op, arg, o.val, [value |-> value, log |-> o.log])
    /\ Faulted(o.val \in {"ErrCreateDir", "ErrWrite"})

\* The gateway's get_container_status for each container listed.
StatusQueries(list) == [i \in 1..Len(list) |-> Gw("get_container_status", list[i].id)]

\* The entry removed without the status asked again: the container is taken
\* for gone whatever the gateway would report.
try_running_existing_container_hasty(s, selection, kind, action, gateway, visit) ==
    LET list == get_containers(containers[s], order[s])
        arg == <<selection, kind, action, gateway>>
        here(val, log) == Outcome(containers[s], order[s], file, val, log)
    IN IF list = <<>> THEN Takes(s, "try_running_existing_container", arg,
                                 here("Ok", <<>>), None)
       ELSE IF selection[1] = "Err"
       THEN Takes(s, "try_running_existing_container", arg,
                  here("ErrUserInput", StatusQueries(list)), None)
       ELSE IF selection[2] = Len(list)
       THEN Takes(s, "try_running_existing_container", arg,
                  here("Ok", StatusQueries(list)), None)
       ELSE \E o \in State_remove_container(containers[s], order[s], file,
                         list[selection[2] + 1].id, StatusQueries(list), MayFail) :
               Takes(s, "try_running_existing_container", arg, o, None)

\* CliState::try_running_existing_container (cli/ui.rs): the containers are
\* listed with "Create new container" as the last item; the status of the
\* container selected is asked again, and a container the gateway does not
\* find is removed from the registry.
try_running_existing_container(s, selection, kind, action, gateway, visit) ==
    LET list == get_containers(containers[s], order[s])
        arg == <<selection, kind, action, gateway>>
        here(val, log) == Outcome(containers[s], order[s], file, val, log)
    IN IF list = <<>> THEN Takes(s, "try_running_existing_container", arg,
                                 here("Ok", <<>>), None)
       ELSE IF selection[1] = "Err"
       THEN Takes(s, "try_running_existing_container", arg,
                  here("ErrUserInput", StatusQueries(list)), None)
       ELSE IF selection[2] = Len(list)
       THEN Takes(s, "try_running_existing_container", arg,
                  here("Ok", StatusQueries(list)), None)
       ELSE LET selected_container == list[selection[2] + 1]
                status == get_container_status(selected_container.id, kind)
                asked == Append(StatusQueries(list),
                                Gw("get_container_status", selected_container.id))
            IN IF status.kind = "NotFound"
               THEN \E o \in State_remove_container(containers[s], order[s], file,
                                 selected_container.id, asked, MayFail) :
                       Takes(s, "try_running_existing_container", arg, o, None)
               ELSE \E ts \in UpdateStamps :
                    \E o \in handle_running_container(containers[s], order[s], file,
                                 status, action, gateway, visit, ts, MayFail) :
                       Takes(s, "try_running_existing_container", arg,
                             [o EXCEPT !.log = asked \o o.log],
                             IF o.val = "Ok" THEN Some(selected_container.id) ELSE None)

\* CliState::handle_running_container of cli.rs: stats and logs are not
\* implemented, a start leaves the registry alone, and Exit ends the process.
cli_handle_running_container(m, ord, f, status, selection, gateway, visit, mayFail) ==
    LET id == status.id IN
    IF status.kind = "NotFound" THEN {Outcome(m, ord, f, "Ok", <<>>)}
    ELSE IF selection = -1 THEN {Outcome(m, ord, f, "ErrUserInput", <<>>)}
    ELSE IF status.kind = "Running"
    THEN CASE selection \in {0, 1} -> {Outcome(m, ord, f, "Ok", <<>>)}
           [] selection = 2 -> {Outcome(m, ord, f, visit.val, visit.log)}
           [] selection = 3 ->
                 {Outcome(m, ord, f, gateway, <<Gw("stop_container", id)>>)}
           [] selection = 4 -> destroy(m, ord, f, id, gateway, mayFail)
           [] OTHER -> {Outcome(m, ord, f, "Exit", <<>>)}
    ELSE IF selection = 0
    THEN {Outcome(m, ord, f, gateway, <<Gw("start_container", id)>>)}
    ELSE destroy(m, ord, f, id, gateway, mayFail)

\* CliState::try_running_existing_container of cli.rs: "Create new
\* container" is the first item of the menu.
cli_try_running_existing_container(s, selection, kind, action, gateway, visit) ==
    LET list == get_containers(containers[s], order[s])
        arg == <<selection, kind, action, gateway>>
        here(val, log) == Outcome(containers[s], order[s], file, val, log)
    IN IF list = <<>> THEN Takes(s, "cli_try_running_existing_container", arg,
                                 here("Ok", <<>>), None)
       ELSE IF selection[1] = "Err"
       THEN Takes(s, "cli_try_running_existing_container", arg,
                  here("ErrUserInput", StatusQueries(list)), None)
       ELSE IF selection[2] = 0
       THEN Takes(s, "cli_try_running_existing_container", arg,
                  here("Ok", StatusQueries(list)), None)
       ELSE LET selected_container == list[selection[2]]
                status == get_container_status(selected_container.id, kind)
                asked == Append(StatusQueries(list),
                                Gw("get_container_status", selected_container.id))
            IN IF status.kind = "NotFound"
               THEN \E o \in State_remove_container(containers[s], order[s], file,
                                 selected_container.id, asked, MayFail) :
                       Takes(s, "cli_try_running_existing_container", arg, o, None)
               ELSE \E o \in cli_handle_running_container(containers[s], order[s], file,
                                 status, action, gateway, visit, MayFail) :
                       Takes(s, "cli_try_running_existing_container", arg,
                             [o EXCEPT !.log = asked \o o.log],
                             IF o.val = "Ok" THEN Some(selected_container.id) ELSE None)

\* ContainerUI::remove_container: remove_container and save on a clone of the
\* State, which replaces the State of the ContainerUI once both returned Ok.
ContainerUI_remove_container(m, ord, f, id, log, mayFail) ==
    UNION {IF removed.val # "Ok" THEN {Outcome(m, ord, removed.file, removed.val, log)}
           ELSE {IF saved.val # "Ok" THEN Outcome(m, ord, saved.file, saved.val, log)
                 ELSE Outcome(removed.map, removed.order, saved.file, "Ok", log) :
                    saved \in save(removed.map, removed.order, removed.file, mayFail)} :
              removed \in State_remove_container(m, ord, f, id, log, mayFail)}

\* The destruction in main with the registry entry removed before the
\* gateway is asked.
main_destroy_eager(m, ord, f, id, gateway, mayFail) ==
    {IF gateway # "Ok" THEN [o EXCEPT !.val = "ErrDocker"] ELSE o :
        o \in ContainerUI_remove_container(m, ord, f, id,
                  <<Gw("remove_container", id)>>, mayFail)}

\* "Stop and Destroy Container" and "Remove this container" of main:
\* docker.remove_container(&container_id).await?, then
\* container_ui.remove_container(&container_id)?.
main_destroy(m, ord, f, id, gateway, mayFail) ==
    IF gateway # "Ok"
    THEN {Outcome(m, ord, f, "ErrDocker", <<Gw("remove_container", id)>>)}
    ELSE ContainerUI_remove_container(m, ord, f, id, <<Gw("remove_container", id)>>,
                                      mayFail)

\* One turn of the loop of main on an existing container: select_container
\* (with "Create new container" as the first item), the status asked again,
\* the action menu and the action.  The value is the container acted on; with
\* None main goes on to create a container.
main_container_action(s, selection, kind, action, gateway) ==
    LET list == get_containers(containers[s], order[s])
        arg == <<selection, kind, action, gateway>>
        here(val, log) == Outcome(containers[s], order[s], file, val, log)
    IN IF list = <<>> THEN Takes(s, "main_container_action", arg, here("Ok", <<>>), None)
       ELSE IF selection[1] = "Err"
       THEN Takes(s, "main_container_action", arg,
                  here("ErrUserInput", StatusQueries(list)), None)
       ELSE IF selection[2] = 0
       THEN Takes(s, "main_container_action", arg, here("Ok", StatusQueries(list)), None)
       ELSE LET id == list[selection[2]].id
                status == get_container_status(id, kind)
                asked == StatusQueries(list) \o <<Gw("get_container_status", id)>>
                again == Append(asked, Gw("get_container_status", id))
                call(name) == here(gateway, Append(again, Gw(name, id)))
            IN IF status.kind = "NotFound"
               THEN Takes(s, "main_container_action", arg, here("Ok", asked), None)
               ELSE IF action = -1
               THEN Takes(s, "main_container_action", arg, here("ErrUserInput", again),
                          None)
               ELSE IF status.kind = "Running" /\ action = 0
               THEN Takes(s, "main_container_action", arg, call("get_container_stats"),
                          Some(id))
               ELSE IF status.kind = "Running" /\ action = 1
               THEN Takes(s, "main_container_action", arg, call("get_container_logs"),
                          Some(id))
               ELSE IF status.kind = "Running" /\ action = 2
               THEN Takes(s, "main_container_action", arg, call("list_ledgers"), Some(id))
               ELSE IF status.kind = "Running" /\ action = 3
               THEN Takes(s, "main_container_action", arg, call("stop_container"),
                          Some(id))
               ELSE IF status.kind = "Running" /\ action = 5
               THEN Takes(s, "main_container_action", arg, here("Ok", again), Some(id))
               ELSE IF status.kind = "Stopped" /\ action = 0
               THEN Takes(s, "main_container_action", arg, call("start_container"),
                          Some(id))
               ELSE \E o \in main_destroy(containers[s], order[s], file, id, gateway,
                                          MayFail) :
                       Takes(s, "main_container_action", arg,
                             [o EXCEPT !.log = again \o o.log], Some(id))

\* One of at most MaxMenuOps visits of the container menu.
StepMenu(call) == nops < MaxMenuOps /\ nops' = nops + 1 /\ call

\* A visit of the ledger menu that finds no ledgers.
NoVisit == handle_ledger_management(<<>>, <<>>, <<>>, 0)

\* What the user selects and the gateway answers in a visit of the menu of
\* n containers: the item, the status reported for it, the action, and the
\* answer to the call the action makes.  What is not asked for in a visit
\* (no container selected, no action offered, no call made) has one value.
MenuInputs(n) ==
    {in \in Selections(n) \X GatewayKinds \X (-1..5) \X GatewayResults :
        /\ in[3] \in Actions(in[2])
        /\ in[1][1] = "Err" => in[2] = "NotFound"
        /\ in[4] = "ErrDocker"
              => \/ in[2] = "Running" /\ in[3] \in {0, 1, 3, 4}
                 \/ in[2] = "Stopped" /\ in[3] \in {0, 1}}

\* The user visits the container menu of CliState (an action on a container,
\* or the ledger menu of a running one) or the one of main.
NextMenu ==
    \/ /\ nops < MaxMenuOps
       /\ \E in \in MenuInputs(Cardinality(DOMAIN containers["P"])) :
             StepMenu(try_running_existing_container("P", in[1], in[2], in[3], in[4],
                                                     NoVisit))
    \/ /\ nops < MaxMenuOps
       /\ \E selection \in Selections(Cardinality(DOMAIN containers["P"])),
             visit \in Visits :
             StepMenu(try_running_existing_container("P", selection, "Running", 2, "Ok",
                                                     visit))
    \/ /\ nops < MaxMenuOps
       /\ \E in \in MenuInputs(Cardinality(DOMAIN containers["P"])) :
             StepMenu(main_container_action("P", in[1], in[2], in[3], in[4]))
    \/ /\ nops < MaxMenuOps
       /\ \E in \in MenuInputs(Cardinality(DOMAIN containers["P"])) :
             StepMenu(cli_try_running_existing_container("P", in[1], in[2], in[3], in[4],
                                                         NoVisit))

\* Session P holds a registry of c1 and c2 that it has saved, each container
\* created and since then started or not.
InitMenu ==
    \E m \in {r \in Registries :
                /\ DOMAIN r \subseteq {"c1", "c2"}
                /\ \A k \in DOMAIN r :
                      r[k].last_start \in {Some(Stamp(1, "Z")), Some(Stamp(1, "."))}} :
      \E ord \in Perms(DOMAIN m) :
        /\ containers = [s \in Sessions |-> IF s = "P" THEN m ELSE EmptyMap]
        /\ order = [s \in Sessions |-> IF s = "P" THEN ord ELSE <<>>]
        /\ file = FileOf(to_string_pretty(m, ord))
        /\ ret = [s \in Sessions |-> NoCall]
        /\ nops = 0
        /\ faults = 0

SpecMenu == InitMenu /\ [][NextMenu]_vars

(* ----------------------- the ContainerUI of main ---------------------- *)

\* main from the prompts to the record, for the name and the port typed and
\* the gateway's answer to create_and_start_container: get_container_name,
\* get_port_config, validate, the container created and started under id,
\* ContainerInfo::new and ContainerUI::add_container.  The value is the
\* container that the gateway created and started, if any.
main_create(s, id, name, input, gateway) ==
    LET arg == <<input, id, name, gateway>>
        fails(val) == /\ Returns(s, "main_create", arg, val, None)
                      /\ Faulted(FALSE)
                      /\ UNCHANGED <<containers, order, file>>
    IN IF ~get_port_config(input).ok THEN fails("ErrUserInput")
       ELSE IF ~validate(get_port_config(input).port) THEN fails("ErrConfig")
       ELSE IF gateway # "Ok" THEN fails("ErrDocker")
       ELSE \E out \in ContainerUI_add_container(containers[s], order[s], file,
                           new(id, name, get_port_config(input).port, None,
                               Stamp(1, "Z")), MayFail) :
              /\ file' = out.file
              /\ Returns(s, "main_create", arg, out.val, Some(id))
              /\ Faulted(out.val \in {"ErrCreateDir", "ErrWrite"})
              /\ UNCHANGED <<containers, order>>

\* A call of ContainerUI::add_container.
CallContainerUIAdd(s, info) ==
    \E out \in ContainerUI_add_container(containers[s], order[s], file, info, MayFail) :
      /\ file' = out.file
      /\ Returns(s, "ContainerUI_add_container", <<info>>, out.val, <<>>)
      /\ Faulted(out.val \in {"ErrCreateDir", "ErrWrite"})
      /\ UNCHANGED <<containers, order>>

\* A call of ContainerUI::remove_container.
CallContainerUIRemove(s, id) ==
    \E o \in ContainerUI_remove_container(containers[s], order[s], file, id, <<>>,
                                          MayFail) :
       Takes(s, "ContainerUI_remove_container", <<id>>, o, None)

\* main starts on the file an earlier run left (State::load, then
\* ContainerUI::new), creates containers under a new name or under the name
\* of c3, and its ContainerUI adds and removes records and shows the menu.
NextUI ==
    \/ Step(load("P"))
    \/ \E id \in {"c1", "c2"}, input \in {80, DefaultPort}, gateway \in GatewayResults :
       \E name \in {NameOf(id), NameOf("c3")} :
          Step(main_create("P", id, name, input, gateway))
    \/ \E t \in Sessions : Step(CallContainerUIAdd("P", SharedInfo(t)))
    \/ \E id \in Ids : Step(CallContainerUIRemove("P", id))
    \/ \E selection \in Selections(Cardinality(DOMAIN containers["P"])),
          kind \in GatewayKinds :
          Step(select_container("P", selection, kind))

SpecUI == InitShared /\ [][NextUI]_vars

(* ============================== claims ================================ *)

Mutators ==
    {"add_container", "remove_container", "update_container_start_time",
     "update_container_status"}

SaveErrors == {"ErrCreateDir", "ErrWrite"}

\* C1: in every reachable state no two records of a registry that have
\* different ids hold the same name.
C1_NameUnique ==
    \A s \in Sessions : \A j, k \in DOMAIN containers[s] :
        containers[s][j].id # containers[s][k].id
            => containers[s][j].name # containers[s][k].name

\* C1 witness: a registry of two records has just refused a record whose name
\* one of them holds.
C1_Witness ==
    /\ ret["P"].op = "add_container"
    /\ ret["P"].val = "ErrNameInUse"
    /\ Cardinality(DOMAIN containers["P"]) = 2

\* C2 as claimed: with the registry holding exactly r1, add_container(r2) for
\* any r2 # r1 of the same name returns the name conflict and leaves only r1.
C2_Original ==
    \A s \in Sessions :
        (/\ ret[s].op = "add_container"
         /\ Cardinality(DOMAIN ret[s].pre) = 1
         /\ \E k \in DOMAIN ret[s].pre :
                /\ ret[s].pre[k] # ret[s].arg[1]
                /\ ret[s].pre[k].name = ret[s].arg[1].name)
        => /\ ret[s].val = "ErrNameInUse"
           /\ containers[s] = ret[s].pre

\* C2 amended: with the registry holding exactly r1, add_container(r2) for any
\* r2 of the same name and a different id returns the name conflict and leaves
\* the registry (only r1, unchanged) and the file as they were.
C2_NameConflict ==
    \A s \in Sessions :
        (/\ ret[s].op = "add_container"
         /\ Cardinality(DOMAIN ret[s].pre) = 1
         /\ \E k \in DOMAIN ret[s].pre :
                /\ ret[s].pre[k].id # ret[s].arg[1].id
                /\ ret[s].pre[k].name = ret[s].arg[1].name)
        => /\ ret[s].val = "ErrNameInUse"
           /\ containers[s] = ret[s].pre
           /\ file = ret[s].preFile

\* C2 witness: r2, of another id and the same name, was refused by a registry
\* of one record.
C2_Witness ==
    /\ ret["P"].op = "add_container"
    /\ ret["P"].val = "ErrNameInUse"
    /\ Cardinality(DOMAIN ret["P"].pre) = 1
    /\ \E k \in DOMAIN containers["P"] :
           /\ containers["P"][k].id # ret["P"].arg[1].id
           /\ containers["P"][k].name = ret["P"].arg[1].name

\* C3: when a mutating operation has returned success, the file holds the
\* text of the whole in-memory registry and parses back to it.
C3_PersistBeforeSuccess ==
    \A s \in Sessions :
        (ret[s].op \in Mutators /\ ret[s].val = "Ok")
        => /\ file.exists
           /\ file.text = to_string_pretty(containers[s], order[s])
           /\ from_str(file.text).ok
           /\ from_str(file.text).map = containers[s]

\* C3 witness: a successful add_container that left two records.
C3_Witness ==
    /\ ret["P"].op = "add_container"
    /\ ret["P"].val = "Ok"
    /\ Cardinality(DOMAIN containers["P"]) = 2

\* C4 as claimed: when the write fails during add_container, remove_container
\* or update_container_start_time, the in-memory registry is what it was
\* before the call.
C4_FailedPersistNotCommitted ==
    \A s \in Sessions :
        (/\ ret[s].op \in {"add_container", "remove_container",
                           "update_container_start_time"}
         /\ ret[s].val \in SaveErrors)
        => containers[s] = ret[s].pre

\* C5: remove_container of an id that is no key returns the not-found error
\* and leaves the registry and the file as they were.
C5_RemoveUnknown ==
    \A s \in Sessions :
        (ret[s].op = "remove_container" /\ ret[s].arg[1] \notin DOMAIN ret[s].pre)
        => /\ ret[s].val = "ErrNotFound"
           /\ containers[s] = ret[s].pre
           /\ file = ret[s].preFile

\* C5 witness: an unknown id was refused while the registry held a record and
\* the file did not hold the registry's text.
C5_Witness ==
    /\ ret["P"].op = "remove_container"
    /\ ret["P"].val = "ErrNotFound"
    /\ containers["P"] # EmptyMap
    /\ file.text # to_string_pretty(containers["P"], order["P"])

\* C6: a successful remove_container(id) removes the entry of id and no other
\* and changes no other record; get_container(id) then returns None, and a
\* remove_container(id) made next returns the not-found error.
C6_RemoveExact ==
    /\ [](\A s \in Sessions :
            (ret[s].op = "remove_container" /\ ret[s].val = "Ok")
            => /\ DOMAIN containers[s] = DOMAIN ret[s].pre \ {ret[s].arg[1]}
               /\ ret[s].arg[1] \in DOMAIN ret[s].pre
               /\ \A k \in DOMAIN containers[s] : containers[s][k] = ret[s].pre[k])
    /\ [][\A s \in Sessions :
            (/\ ret[s].op = "remove_container" /\ ret[s].val = "Ok"
             /\ nops' = nops + 1
             /\ ret'[s].op \in {"remove_container", "get_container"}
             /\ ret'[s].arg[1] = ret[s].arg[1])
            => /\ ret'[s].op = "remove_container" => ret'[s].val = "ErrNotFound"
               /\ ret'[s].op = "get_container" => ret'[s].out = None]_vars

\* C6 witness: a successful removal that left another record behind.
C6_Witness ==
    /\ ret["P"].op = "remove_container"
    /\ ret["P"].val = "Ok"
    /\ containers["P"] # EmptyMap

\* C7 as claimed: update_container_start_time of an id that is not in the
\* registry returns the not-found error; success only for a known id.
C7_UpdateUnknownNotFound ==
    \A s \in Sessions :
        (/\ ret[s].op = "update_container_start_time"
         /\ ret[s].arg[1] \notin DOMAIN ret[s].pre)
        => ret[s].val = "ErrNotFound"

\* The fields of a record other than last_start.
SameButLastStart(a, b) ==
    /\ a.id = b.id /\ a.name = b.name /\ a.port = b.port
    /\ a.data_dir = b.data_dir /\ a.config_dir = b.config_dir
    /\ a.image_tag = b.image_tag

\* The registry of s is ret[s].pre with the last_start of id set to ls and
\* nothing else changed.
OnlyLastStartSet(s, id, ls) ==
    /\ DOMAIN containers[s] = DOMAIN ret[s].pre
    /\ containers[s][id].last_start = ls
    /\ SameButLastStart(containers[s][id], ret[s].pre[id])
    /\ \A k \in DOMAIN containers[s] \ {id} : containers[s][k] = ret[s].pre[k]

\* C8: update_container_start_time(id, ts) and update_container_status(id,
\* true, Some(ts)) on a known id set last_start of that record to ts and change
\* nothing else; update_container_status(id, false, _) changes no record.
C8_OnlyLastStart ==
    \A s \in Sessions :
        /\ (ret[s].op = "update_container_start_time" /\ ret[s].arg[1] \in DOMAIN ret[s].pre)
           => OnlyLastStartSet(s, ret[s].arg[1], Some(ret[s].arg[2]))
        /\ (/\ ret[s].op = "update_container_status"
            /\ ret[s].arg[1] \in DOMAIN ret[s].pre
            /\ ret[s].arg[2] /\ ret[s].arg[3] # None)
           => OnlyLastStartSet(s, ret[s].arg[1], ret[s].arg[3])
        /\ (ret[s].op = "update_container_status" /\ ~ret[s].arg[2])
           => containers[s] = ret[s].pre

\* C8 witness: the start time of one of two records was set to a new value.
C8_Witness ==
    /\ ret["P"].op = "update_container_start_time"
    /\ ret["P"].arg[1] \in DOMAIN ret["P"].pre
    /\ Cardinality(DOMAIN containers["P"]) = 2
    /\ containers["P"] # ret["P"].pre

(* --------------------------- claims on queries ------------------------ *)

\* C9: get_containers returns every record of the registry exactly once,
\* ordered by last_start descending, the records without last_start after all
\* records that have one.
C9_ListSorted ==
    \A s \in Sessions :
        ret[s].op = "get_containers"
        => LET out == ret[s].out IN
           /\ Len(out) = Cardinality(DOMAIN containers[s])
           /\ \A k \in DOMAIN containers[s] :
                  Cardinality({i \in 1..Len(out) : out[i] = containers[s][k]}) = 1
           /\ \A i, j \in 1..Len(out) :
                  i < j => /\ out[i].last_start = None => out[j].last_start = None
                           /\ (out[i].last_start # None /\ out[j].last_start # None)
                              => StringCmp(out[i].last_start[1], out[j].last_start[1]) >= 0

\* C9 witness: a listing of three records, the first with a later start than
\* the second and the third with none.
C9_Witness ==
    /\ ret["Q"].op = "get_containers"
    /\ Len(ret["Q"].out) = 3
    /\ ret["Q"].out[3].last_start = None
    /\ ret["Q"].out[2].last_start # None
    /\ ret["Q"].out[1].last_start # ret["Q"].out[2].last_start

\* C10 as claimed: two registries that hold the same records return the same
\* sequence from get_containers and the same pair from get_default_settings.
C10_QueriesDeterministic ==
    (/\ containers["P"] = containers["Q"]
     /\ ret["P"].op = ret["Q"].op
     /\ ret["P"].op \in {"get_containers", "get_default_settings"})
    => ret["P"].out = ret["Q"].out

\* C11: get_default_settings returns (8090, None) on an empty registry; else
\* the port and data_dir of a record whose last_start no other record's
\* exceeds, which is a record with a last_start whenever there is one.
C11_DefaultSettings ==
    \A s \in Sessions :
        ret[s].op = "get_default_settings"
        => LET m == containers[s] IN
           IF DOMAIN m = {} THEN ret[s].out = <<8090, None>>
           ELSE \E k \in DOMAIN m :
                  /\ ret[s].out = <<m[k].port, m[k].data_dir>>
                  /\ \A j \in DOMAIN m :
                         OptionCmp(m[j].last_start, m[k].last_start) <= 0
                  /\ (\E j \in DOMAIN m : m[j].last_start # None)
                         => m[k].last_start # None

\* C11 witness: of three records the one with the latest start, the only one
\* on port 9090, gave the defaults; another record has no last_start.
C11_Witness ==
    /\ ret["Q"].op = "get_default_settings"
    /\ DOMAIN containers["Q"] = Ids
    /\ ret["Q"].out[1] = 9090
    /\ containers["Q"]["c1"].last_start = None
    /\ containers["Q"]["c3"].last_start # None

\* C12: load returns the empty registry without error when there is no file;
\* for a file that is there and does not parse it returns the error that
\* carries the path, and no registry (the session's is not replaced by an
\* empty one); every error of load carries the path.
C12_LoadAbsentOrError ==
    \A s \in Sessions :
        ret[s].op = "load"
        => /\ ~ret[s].preFile.exists
                => ret[s].val = "Ok" /\ containers[s] = EmptyMap
           /\ (ret[s].preFile.exists /\ ~from_str(ret[s].preFile.text).ok)
                => /\ ret[s].val = "ErrConfigFile"
                   /\ ret[s].out = <<"config.json">>
                   /\ containers[s] = ret[s].pre
           /\ ret[s].val # "Ok" => ret[s].out = <<"config.json">>

\* C12 witness: a session that holds a record was refused the load of a file
\* cut short by a failed write.
C12_Witness ==
    /\ ret["P"].op = "load"
    /\ ret["P"].val = "ErrConfigFile"
    /\ ret["P"].preFile.exists
    /\ ~from_str(ret["P"].preFile.text).ok
    /\ containers["P"] # EmptyMap

\* C16: a file that exists when load, add_container, remove_container or an
\* update is called exists when the call has returned, with success or with
\* an error; clear where there is no file returns success and changes nothing.
C16_FileDeletedOnlyByClear ==
    \A s \in Sessions :
        /\ (/\ ret[s].op \in Mutators \cup {"load"}
            /\ ret[s].at = nops - 1
            /\ ret[s].preFile.exists)
           => file.exists
        /\ (ret[s].op = "clear" /\ ret[s].at = nops - 1 /\ ~ret[s].preFile.exists)
           => /\ ret[s].val = "Ok"
              /\ file = ret[s].preFile
              /\ containers[s] = ret[s].pre

\* C16 witness: the last record was removed and the file is still there.
C16_Witness ==
    /\ ret["P"].op = "remove_container"
    /\ ret["P"].val = "Ok"
    /\ ret["P"].preFile.exists
    /\ containers["P"] = EmptyMap
    /\ file.exists

C19_StartupWarns ==
    \A s \in Sessions :
        (/\ ret[s].op \in {"CliState_default", "load_state", "main"}
         /\ ret[s].preFile.exists
         /\ ~from_str(ret[s].preFile.text).ok)
        => /\ containers[s] = EmptyMap
           /\ ret[s].out[2]

(* ----------------------- claims on a shared file ---------------------- *)

\* The records of a and b agree in the fields the round trip is about.
SameFields(a, b) ==
    /\ a.id = b.id /\ a.name = b.name /\ a.port = b.port
    /\ a.data_dir = b.data_dir /\ a.image_tag = b.image_tag
    /\ a.last_start = b.last_start

\* C13: when a session's add_container has saved its registry and the next
\* call is another session's load, the file parses, and the loaded registry
\* has the ids of the saved one and, under each id, the same name, port,
\* data_dir, image_tag and last_start; the save succeeds where there was no
\* file (and no directory) unless the file system fails.
C13_RoundTrip ==
    \A s, t \in Sessions :
        /\ (/\ s # t
            /\ ret[s].op = "add_container" /\ ret[s].val = "Ok"
            /\ ret[t].op = "load" /\ ret[t].at = ret[s].at + 1)
           => /\ from_str(ret[t].preFile.text).ok
              /\ ret[t].val = "Ok"
                   => /\ DOMAIN containers[t] = DOMAIN containers[s]
                      /\ \A k \in DOMAIN containers[s] :
                             SameFields(containers[t][k], containers[s][k])
        /\ (ret[s].op = "add_container" /\ ~ret[s].preFile.exists /\ faults = 0)
           => ret[s].val = "Ok"

\* C13 witness: Q saved a record without last_start and one with a data
\* directory, and P loaded the two next.
C13_Witness ==
    /\ ret["Q"].op = "add_container" /\ ret["Q"].val = "Ok"
    /\ ret["P"].op = "load" /\ ret["P"].val = "Ok"
    /\ ret["P"].at = ret["Q"].at + 1
    /\ DOMAIN containers["P"] = {"c2", "c3"}
    /\ containers["P"]["c3"].last_start = None
    /\ containers["P"]["c2"].data_dir # None

\* C14: a load leaves the file as it found it (no file stays no file), and of
\* two loads with no call in between the second finds the file the first
\* found and, when both return a registry, returns the same records.
C14_LoadReadOnly ==
    \A s, t \in Sessions :
        /\ (ret[s].op = "load" /\ ret[s].at = nops - 1) => file = ret[s].preFile
        /\ (/\ s # t
            /\ ret[s].op = "load" /\ ret[t].op = "load"
            /\ ret[t].at = ret[s].at + 1)
           => /\ ret[t].preFile = ret[s].preFile
              /\ (ret[s].val = "Ok" /\ ret[t].val = "Ok")
                   => containers[s] = containers[t]
              /\ (ret[s].val = "Ok" /\ faults = 0) => ret[t].val = "Ok"

\* C14 witness: two loads in a row of a file of two records, made after the
\* two sessions had come to hold different registries.
C14_Witness ==
    /\ ret["P"].op = "load" /\ ret["Q"].op = "load"
    /\ ret["Q"].at = ret["P"].at + 1
    /\ ret["P"].pre # ret["Q"].pre
    /\ Cardinality(DOMAIN containers["Q"]) = 2
    /\ ret["P"].val = "Ok" /\ ret["Q"].val = "Ok"

\* C20: when t's successful add_container(b) comes after s's successful
\* add_container(a), the ids of a and b differ and t did not hold a, the file
\* is the text of t's whole registry: it holds b and does not hold a.
C20_LastWriterWins ==
    \A s, t \in Sessions :
        (/\ s # t
         /\ ret[s].op = "add_container" /\ ret[s].val = "Ok"
         /\ ret[t].op = "add_container" /\ ret[t].val = "Ok"
         /\ ret[s].at < ret[t].at
         /\ ret[s].arg[1].id # ret[t].arg[1].id
         /\ ret[s].arg[1].id \notin DOMAIN ret[t].pre)
        => /\ file.text = to_string_pretty(containers[t], order[t])
           /\ from_str(file.text).ok
           /\ ret[t].arg[1].id \in DOMAIN from_str(file.text).map
           /\ from_str(file.text).map[ret[t].arg[1].id] = ret[t].arg[1]
           /\ ret[s].arg[1].id \notin DOMAIN from_str(file.text).map

\* C20 witness: P and Q loaded the file that holds c3, then P added c1 and Q
\* added c2; P still holds c1.
C20_Witness ==
    /\ ret["P"].op = "add_container" /\ ret["P"].val = "Ok" /\ ret["P"].at = 2
    /\ ret["Q"].op = "add_container" /\ ret["Q"].val = "Ok" /\ ret["Q"].at = 3
    /\ DOMAIN ret["P"].pre = {"c3"}
    /\ DOMAIN ret["Q"].pre = {"c3"}
    /\ DOMAIN containers["P"] = {"c1", "c3"}
    /\ DOMAIN from_str(file.text).map = {"c2", "c3"}

(* --------------------------- claims on lookups ------------------------ *)

\* The characters of needle stand in haystack one after the other from some
\* position on.
Occurs(needle, haystack) ==
    \E off \in 0..Len(haystack) :
        /\ off + Len(needle) <= Len(haystack)
        /\ \A j \in 1..Len(needle) : haystack[off + j] = needle[j]

\* C15: find_containers_by_name(p) returns every record whose name has p as
\* a run of consecutive characters, compared as they are, exactly once, and
\* no other record.
C15_FindBySubstring ==
    \A s \in Sessions :
        ret[s].op = "find_containers_by_name"
        => LET out == ret[s].out
               m == containers[s]
           IN /\ \A k \in DOMAIN m :
                    Cardinality({i \in 1..Len(out) : out[i] = m[k]})
                        = IF Occurs(ret[s].arg[1], m[k].name) THEN 1 ELSE 0
              /\ \A i \in 1..Len(out) : \E k \in DOMAIN m : out[i] = m[k]

\* C15 witness: of the names "t", "t1" and "t2" the query "t1" found only the
\* second.
C15_Witness ==
    /\ ret["P"].op = "find_containers_by_name"
    /\ ret["P"].arg[1] = <<"t", "1">>
    /\ DOMAIN containers["P"] = Ids
    /\ Len(ret["P"].out) = 1
    /\ ret["P"].out[1].id = "c2"

\* C18: select_container, when the user interface returns a selection,
\* returns None for an empty registry, for the option "Create new container"
\* and for a selected container the gateway reports NotFound, and otherwise
\* (Running or Stopped) Some(id of the selected container); it changes neither
\* the registry nor the file.
C18_SelectContainer ==
    \A s \in Sessions :
        ret[s].op = "select_container"
        => LET list == get_containers(containers[s], order[s])
               selection == ret[s].arg[1]
               kind == ret[s].arg[2]
               none == \/ DOMAIN ret[s].pre = {}
                       \/ selection[1] = "Ok" /\ selection[2] = 0
                       \/ selection[1] = "Ok" /\ kind = "NotFound"
           IN /\ containers[s] = ret[s].pre
              /\ file = ret[s].preFile
              /\ none => ret[s].val = "Ok" /\ ret[s].out = None
              /\ (ret[s].val = "Ok" /\ ret[s].out = None) => none
              /\ (ret[s].val = "Ok" /\ ret[s].out # None)
                    <=> (/\ DOMAIN ret[s].pre # {}
                         /\ selection[1] = "Ok" /\ selection[2] > 0
                         /\ kind \in {"Running", "Stopped"})
              /\ (ret[s].val = "Ok" /\ ret[s].out # None)
                    => ret[s].out = Some(list[selection[2]].id)

\* C18 witness: of three containers in the menu the second was selected, the
\* gateway reported it stopped, and its id was returned.
C18_Witness ==
    /\ ret["P"].op = "select_container"
    /\ DOMAIN containers["P"] = Ids
    /\ ret["P"].arg = <<<<"Ok", 2>>, "Stopped">>
    /\ ret["P"].out # None

(* ------------------------ claims on validation ------------------------ *)

\* C21: validate rejects a host port below 1024, a config file given without
\* a config mount and a config mount given without a config file; it accepts
\* a port of 1024 or more with no data mount, config mount or config file.
C21_Validate ==
    ret["P"].op = "validate"
    => LET config == ret["P"].arg[1]
           rejected == ret["P"].val # "Ok"
       IN /\ config.host_port < 1024 => rejected
          /\ (config.config_file # None /\ config.config_mount = None) => rejected
          /\ (config.config_mount # None /\ config.config_file = None) => rejected
          /\ (/\ config.host_port >= 1024
              /\ config.data_mount = None
              /\ config.config_mount = None
              /\ config.config_file = None) => ret["P"].val = "Ok"

\* C21 witness: a configuration on port 8090 that names a config file in no
\* mount was rejected.
C21_Witness ==
    /\ ret["P"].op = "validate"
    /\ ret["P"].arg[1] = FlureeConfig(DefaultPort, None, None, Some("present"))
    /\ ret["P"].val = "ErrConfig"

(* ----------------------- claims on a save's steps --------------------- *)

\* C22: a save replaces the content of the file in one atomic step: a load by
\* another process, or a crash of the saving process, finds the complete
\* previous content or the complete new content, and never an empty or
\* partly written file.
C22_SaveAtomic ==
    /\ file.exists => from_str(file.text).ok
    /\ (ret["Q"].op = "load" /\ faults = 0)
          => /\ ret["Q"].val = "Ok"
             /\ \/ containers["Q"] = from_str(ret["P"].preFile.text).map
                \/ containers["Q"] = containers["P"]
                \/ ret["P"].val = "Crashed"

(* ---------------------- claims on the newest record ------------------- *)

\* The call added a new record whose last_start is later than every
\* last_start the registry held.
AddedNewest(call) ==
    /\ call.op = "add_container"
    /\ call.val = "Ok"
    /\ call.arg[1].id \notin DOMAIN call.pre
    /\ \A k \in DOMAIN call.pre :
           OptionCmp(call.arg[1].last_start, call.pre[k].last_start) > 0

\* The record r is the first of get_containers and gives the defaults.
ListedFirst(m, ord, r) ==
    /\ get_containers(m, ord)[1] = r
    /\ get_default_settings(m, ord) = <<r.port, r.data_dir>>

\* C23: after add_container of a new record stamped later than every
\* last_start in the registry, get_containers returns the record first and
\* get_default_settings returns its port and data_dir, and this stays so over
\* a call after which no other record has a later last_start.
C23_NewestFirst ==
    [][/\ AddedNewest(ret'["P"])
          => ListedFirst(containers'["P"], order'["P"], ret'["P"].arg[1])
       /\ (/\ AddedNewest(ret["P"])
           /\ ret["P"].arg[1].id \in DOMAIN containers'["P"]
           /\ containers'["P"][ret["P"].arg[1].id] = ret["P"].arg[1]
           /\ \A k \in DOMAIN containers'["P"] :
                  OptionCmp(containers'["P"][k].last_start,
                            ret["P"].arg[1].last_start) <= 0)
          => ListedFirst(containers'["P"], order'["P"], ret["P"].arg[1])]_vars

(* ----------------------- claims on the menus -------------------------- *)

\* The visit of the menu that session s made last selected a container.
Selected(s) ==
    /\ ret[s].op \in {"try_running_existing_container", "main_container_action",
                      "cli_try_running_existing_container"}
    /\ DOMAIN ret[s].pre # {}
    /\ ret[s].arg[1][1] = "Ok"
    /\ IF ret[s].op = "try_running_existing_container"
       THEN ret[s].arg[1][2] < Cardinality(DOMAIN ret[s].pre)
       ELSE ret[s].arg[1][2] > 0

\* The gateway call name was made for container id in the visit.
Called(s, name, id) ==
    \E i \in 1..Len(ret[s].out.log) : ret[s].out.log[i] = Gw(name, id)

Destroying(s) ==
    /\ Selected(s)
    /\ \/ ret[s].arg[2] = "Running" /\ ret[s].arg[3] = 4
       \/ ret[s].arg[2] = "Stopped" /\ ret[s].arg[3] = 1

\* C25: in every destroy path (the two of CliState, in cli/ui.rs and in
\* cli.rs, and the two of main) the
\* registry entry is removed only after the gateway's remove_container
\* returned success; when the gateway's removal fails the entry remains in
\* the registry in memory and in the file.
C25_DestroyAfterGateway ==
    Destroying("P")
    => /\ \E id \in DOMAIN ret["P"].pre : Called("P", "remove_container", id)
       /\ ret["P"].arg[4] = "ErrDocker"
             => /\ ret["P"].val = "ErrDocker"
                /\ containers["P"] = ret["P"].pre
                /\ file = ret["P"].preFile
       /\ \A id \in DOMAIN ret["P"].pre \ DOMAIN containers["P"] :
             /\ ret["P"].arg[4] = "Ok"
             /\ Called("P", "remove_container", id)
             /\ DOMAIN containers["P"] = DOMAIN ret["P"].pre \ {id}
       /\ (file # ret["P"].preFile) => ret["P"].arg[4] = "Ok"

\* C25 witness: main destroyed a running container, one of two in the
\* registry: the gateway removed it, then the entry was removed and saved.
C25_Witness ==
    /\ Destroying("P")
    /\ ret["P"].op = "main_container_action"
    /\ ret["P"].arg[2] = "Running"
    /\ ret["P"].val = "Ok"
    /\ Cardinality(DOMAIN ret["P"].pre) = 2
    /\ Cardinality(DOMAIN containers["P"]) = 1
    /\ from_str(file.text).map = containers["P"]

\* The calls of the gateway that act on a container.
Lifecycle == {"start_container", "stop_container", "remove_container"}

\* C26: try_running_existing_container (cli/ui.rs and cli.rs) asks the
\* gateway for the status of the container selected again before it acts;
\* when the gateway reports NotFound, exactly that entry is removed from the
\* registry and saved, no other entry is removed, no lifecycle call is made,
\* and None is returned.
C26_PruneNotFound ==
    (/\ Selected("P")
     /\ ret["P"].op \in {"try_running_existing_container",
                         "cli_try_running_existing_container"})
    => LET n == Cardinality(DOMAIN ret["P"].pre)
           log == ret["P"].out.log
       IN /\ Len(log) > n
          /\ log[n + 1].call = "get_container_status"
          /\ log[n + 1].arg \in DOMAIN ret["P"].pre
          /\ \A i \in 1..n : log[i].call = "get_container_status"
          /\ ret["P"].arg[2] = "NotFound"
                => /\ Len(log) = n + 1
                   /\ \A i \in 1..Len(log) : log[i].call \notin Lifecycle
                   /\ containers["P"] = MapRemove(ret["P"].pre, log[n + 1].arg)
                   /\ ret["P"].out.value = None
                   /\ ret["P"].val \in {"Ok", "ErrCreateDir", "ErrWrite"}
                   /\ ret["P"].val = "Ok" => from_str(file.text).map = containers["P"]

\* C26 witness: of two containers in the menu of cli/ui.rs one was selected
\* that the gateway did not find; its entry was removed and the registry of
\* the other one saved.
C26_Witness ==
    /\ Selected("P")
    /\ ret["P"].op = "try_running_existing_container"
    /\ ret["P"].arg[2] = "NotFound"
    /\ ret["P"].val = "Ok"
    /\ Cardinality(DOMAIN ret["P"].pre) = 2
    /\ Cardinality(DOMAIN containers["P"]) = 1
    /\ from_str(file.text).map = containers["P"]

(* -------------------- claims on the ContainerUI of main --------------- *)

\* C27: every container that the creation flow created and started through
\* the gateway is recorded in the registry, in memory and in the file, by the
\* time the flow returns, with success or with an error; also when the
\* registry holds a stale entry with the same name.
C27_CreatedIsRecorded ==
    (ret["P"].op = "main_create" /\ ret["P"].out # None)
    => /\ ret["P"].out[1] \in DOMAIN containers["P"]
       /\ from_str(file.text).ok
       /\ ret["P"].out[1] \in DOMAIN from_str(file.text).map

\* C28: after ContainerUI::add_container(a) returned success, a is in the
\* registry of the ContainerUI and in the file, so that a following
\* add_container(b) or remove_container(c) of the ContainerUI leaves a in the
\* file, and select_container lists a.
C28_AddedIsKept ==
    [][(/\ ret["P"].op = "ContainerUI_add_container"
        /\ ret["P"].val = "Ok")
       => LET a == ret["P"].arg[1] IN
          /\ a.id \in DOMAIN containers["P"]
          /\ a.id \in DOMAIN from_str(file.text).map
          /\ (/\ ret'["P"].val = "Ok"
              /\ \/ /\ ret'["P"].op = "ContainerUI_add_container"
                    /\ ret'["P"].arg[1].id # a.id
                 \/ /\ ret'["P"].op = "ContainerUI_remove_container"
                    /\ ret'["P"].arg[1] # a.id)
                => a.id \in DOMAIN from_str(file'.text).map
          /\ (ret'["P"].op = "select_container" /\ ret'["P"].arg[1][1] = "Ok")
                => \E i \in 1..Len(get_containers(containers'["P"], order'["P"])) :
                      get_containers(containers'["P"], order'["P"])[i].id = a.id]_vars

(* ---------------------- claims on the ledger menu --------------------- *)

\* The round of the script that the visit took last.
LastRound(s) == ret[s].arg[2][ret[s].out.rounds]

\* The lines typed contain the word delete as such.
TypedDelete(typed) == \E i \in 1..Len(typed) : typed[i] = "delete"

\* C29: delete_ledger is called only for the ledger selected, and only after
\* the user typed exactly "delete" at the confirmation prompt; no other
\* input leads to a call of delete_ledger.
C29_DeleteConfirmed ==
    ret["P"].op \in {"handle_ledger_management", "manage_ledgers"}
    => LET ledgers == ret["P"].arg[1]
           log == ret["P"].out.log
       IN \A i \in 1..Len(log) :
             log[i].call = "delete_ledger"
             => /\ i = Len(log)
                /\ ret["P"].out.rounds > 0
                /\ LastRound("P").action = 1
                /\ LastRound("P").ledger < Len(ledgers)
                /\ log[i].arg = ledgers[LastRound("P").ledger + 1]
                /\ IF ret["P"].op = "manage_ledgers"
                   THEN LastRound("P").typed # <<>> /\ LastRound("P").typed[1] = "delete"
                   ELSE TypedDelete(LastRound("P").typed)

\* C29 witness: of two ledgers the second was selected, "Delete Ledger"
\* chosen, "Delete" typed and refused, then "delete" typed, and delete_ledger
\* was called for the second ledger.
C29_Witness ==
    /\ ret["P"].op = "handle_ledger_management"
    /\ ret["P"].arg[1] = <<"l1", "l2">>
    /\ ret["P"].out.rounds = 1
    /\ LastRound("P") = [ledger |-> 1, action |-> 1, typed |-> <<"Delete", "delete">>]
    /\ ret["P"].out.log = <<Gw("list_ledgers", ""), Gw("delete_ledger", "l2")>>

\* How often the visit asked the gateway for the list of ledgers.
Listed(s) ==
    Cardinality({i \in 1..Len(ret[s].out.log) : ret[s].out.log[i].call = "list_ledgers"})

\* C30: after "Return to Ledger List", and after a confirmed deletion, the
\* ledgers of the same container are fetched and listed again; only "Go Back
\* to Container Menu" leaves the ledger menu (or the deletion of the last
\* ledger, after which there is nothing to list).
C30_ReturnToLedgerList ==
    (/\ ret["P"].op \in {"handle_ledger_management", "manage_ledgers"}
     /\ ret["P"].out.rounds > 0)
    => /\ (/\ LastRound("P").ledger < Len(ret["P"].arg[1])
           /\ \/ LastRound("P").action = 2
              \/ ret["P"].out.log[Len(ret["P"].out.log)].call = "delete_ledger")
          => Listed("P") = ret["P"].out.rounds + 1
       /\ ret["P"].val = "Ok"
          => \/ /\ ret["P"].op = "handle_ledger_management"
                /\ \/ LastRound("P").ledger = Len(ret["P"].arg[1])
                   \/ LastRound("P").action = 3
             \/ /\ ret["P"].out.log[Len(ret["P"].out.log)].call = "delete_ledger"
                /\ Len(ret["P"].arg[1]) = 1

====
